---- MODULE Spec2Model ----
(***************************************************************************)
(* Line-balance engine of line-balance-app (src/app.py): the roster in     *)
(* long format, the offering index, the target calculator, the section     *)
(* picker, the chain planner, the move executor, the balancing loop, the   *)
(* toggle of the page, the imbalance report and the impact table.          *)
(***************************************************************************)
EXTENDS Integers, Sequences, FiniteSets, TLC

\* ---------------------------------------------------------------- bounds
NumStudents == 5
MixedStudents == 3
NumLines == 3
NumCourses == 2
MaxSec == 1
MaxRoundsCap == 3
MaxMovesCap == 2
MaxCount == 10
MaxChain == 2
PlanNumLines == 4
PickMaxSec == 3
PickMaxCount == 5
ImbNumCourses == 3
ImbMaxCount == 3
ImpMaxCount == 2
ImpNumLines == 2

Students == 1..NumStudents
Lines == 1..NumLines
Courses == 1..NumCourses

\* A class code is <<course, suffix>>: the course is the code's fixed-length
\* prefix, the suffix tells parallel sections apart.  NaN is an empty cell.
NaN == <<0, 0>>
Classes == Courses \X (1..MaxSec)
NoCourse == 0
None == << >>

\* str[:5] of a class code
CoursePrefix(class) == class[1]

\* lexical order of class codes
ClassLess(a, b) == a[1] < b[1] \/ (a[1] = b[1] /\ a[2] < b[2])

\* ------------------------------------------------------- sequence helpers
RECURSIVE SeqFromTo(_, _, _)
\* <<f[lo], ..., f[hi]>> concatenated, f a function from integers to sequences
SeqFromTo(f, lo, hi) == IF lo > hi THEN << >> ELSE f[lo] \o SeqFromTo(f, lo + 1, hi)

\* a function or sequence as an explicit value (its entries computed once)
Evaluated(f) == f @@ << >>

RECURSIVE ConcatFrom(_, _)
ConcatFrom(ss, k) == IF k > Len(ss) THEN << >> ELSE ss[k] \o ConcatFrom(ss, k + 1)

\* the sequences of ss, concatenated
ConcatAll(ss) == ConcatFrom(Evaluated(ss), 1)

\* ---------------------------------------------------------- data helpers
\* melt_long: one row per non-empty (AL column, student), column by column
melt_long(df) ==
  SeqFromTo([ln \in Lines |->
      SeqFromTo([s \in Students |->
          IF df[s][ln] = NaN THEN << >>
          ELSE << [Code |-> s, Line |-> ln, Class |-> df[s][ln],
                   Course |-> CoursePrefix(df[s][ln])] >>],
        1, NumStudents)],
    1, NumLines)

\* counts_from_long: size of the (Line, Course) group; 0 stands for no group
counts_from_long(long, ln, c) ==
  Cardinality({i \in DOMAIN long : long[i].Line = ln /\ long[i].Course = c})

\* a row of the pivot: Line -> StudentCount (0 where the pivot holds NaN)
WideRow(long, c) == Evaluated([ln \in Lines |-> counts_from_long(long, ln, c)])

\* counts.pivot(index="Course", columns="Line", values="StudentCount")
Pivot(long) == Evaluated([c \in Courses |-> WideRow(long, c)])

\* the courses that are rows of the pivot, in index (ascending) order
WideIndex(w) ==
  SeqFromTo([c \in Courses |->
      IF \E ln \in Lines : w[c][ln] > 0 THEN <<c>> ELSE << >>],
    1, NumCourses)

\* [ln for ln, ct in row.dropna().items() if ct > 0]
Offered(row) ==
  SeqFromTo([ln \in Lines |-> IF row[ln] > 0 THEN <<ln>> ELSE << >>], 1, NumLines)

\* build_offerings: course -> lines with a positive count (absent course: [])
build_offerings(long) == Evaluated([c \in Courses |-> Offered(Pivot(long)[c])])

\* build_student_schedule: the last row of a (student, line) wins
build_student_schedule(long) ==
  Evaluated([s \in Students |-> Evaluated([ln \in Lines |->
     LET rows == {i \in DOMAIN long : long[i].Code = s /\ long[i].Line = ln}
     IN IF rows = {} THEN NoCourse
        ELSE long[CHOOSE i \in rows : \A j \in rows : j <= i].Course])])

\* ------------------------------------------------- section-aware helpers
RECURSIVE SortedClasses(_)
\* sorted(...) of a set of class codes
SortedClasses(S) ==
  IF S = {} THEN << >>
  ELSE LET m == CHOOSE a \in S : \A b \in S : a = b \/ ClassLess(a, b)
       IN <<m>> \o SortedClasses(S \ {m})

\* get_course_sections_on_line: the distinct class codes of a course on a line
get_course_sections_on_line(long, course, line) ==
  SortedClasses({long[i].Class : i \in
      {j \in DOMAIN long : long[j].Course = course /\ long[j].Line = line}})

\* headcount of one section of a course on a line
SectionCount(long, course, line, class) ==
  Cardinality({i \in DOMAIN long :
      long[i].Course = course /\ long[i].Line = line /\ long[i].Class = class})

RECURSIVE InsertByKey(_, _, _)
\* x goes after every element whose key is not larger (the sort is stable)
InsertByKey(x, sorted, key) ==
  IF sorted = << >> THEN <<x>>
  ELSE IF key[Head(sorted)] <= key[x]
       THEN <<Head(sorted)>> \o InsertByKey(x, Tail(sorted), key)
       ELSE <<x>> \o sorted

RECURSIVE StableSortByKey(_, _)
\* sorted(seq, key=...) and sort_values(kind="mergesort"): ascending, stable
StableSortByKey(seq, key) ==
  IF seq = << >> THEN << >>
  ELSE InsertByKey(seq[Len(seq)], StableSortByKey(SubSeq(seq, 1, Len(seq) - 1), key), key)

\* pick_destination_section that takes the first section in lexical order,
\* whatever its headcount
pick_destination_section_first(long, course, line) ==
  LET sections == get_course_sections_on_line(long, course, line)
  IN IF sections = << >> THEN None ELSE sections[1]

\* pick_destination_section: the least-filled section, None when there is none
pick_destination_section(long, course, line) ==
  LET sections == get_course_sections_on_line(long, course, line)
      counts == Evaluated([cl \in {sections[k] : k \in DOMAIN sections} |->
                             SectionCount(long, course, line, cl)])
  IN IF sections = << >> THEN None
     ELSE StableSortByKey(sections, counts)[1]

\* ------------------------------------------------------ target calculator
RECURSIVE SumOver(_, _)
SumOver(seq, f) == IF seq = << >> THEN 0 ELSE f[Head(seq)] + SumOver(Tail(seq), f)

\* lines_sorted_asc = sorted(offered, key=lambda ln: curr[ln])
lines_sorted_asc(row) == StableSortByKey(Offered(row), row)

\* Target with the extra seats given to the largest lines instead
TargetLargestFirst(row) ==
  LET offered == Offered(row)
      total == SumOver(offered, row)
      n == Len(offered)
      base == total \div n
      remainder == total % n
      sorted == lines_sorted_asc(row)
      bumped == {sorted[k] : k \in (n - remainder + 1)..n}
  IN Evaluated([ln \in {offered[k] : k \in DOMAIN offered} |->
                  IF ln \in bumped THEN base + 1 ELSE base])

\* target: base for every offered line, base + 1 for the first `remainder`
\* lines of lines_sorted_asc
Target(row) ==
  LET offered == Offered(row)
      total == SumOver(offered, row)
      n == Len(offered)
      base == total \div n
      remainder == total % n
      sorted == lines_sorted_asc(row)
      bumped == {sorted[k] : k \in 1..remainder}
  IN Evaluated([ln \in {offered[k] : k \in DOMAIN offered} |->
                  IF ln \in bumped THEN base + 1 ELSE base])

\* surplus = [ln for ln in offered if curr[ln] > target[ln]]
Surplus(row, target) == SelectSeq(Offered(row), LAMBDA ln : row[ln] > target[ln])

\* deficit = [ln for ln in offered if curr[ln] < target[ln]]
Deficit(row, target) == SelectSeq(Offered(row), LAMBDA ln : row[ln] < target[ln])

\* ------------------------------------------------------------ planner
\* first hop: the lines of the blocking course the student could go to
OneHopAlts(sched_s, offerings, blocking_course, to_ln) ==
  SelectSeq(offerings[blocking_course],
            LAMBDA alt_ln : ~(alt_ln = to_ln \/ sched_s[alt_ln] # NoCourse))

\* second hop: for an occupied line alt_ln of the blocking course, the lines
\* its occupant c2 could go to
TwoHopAlt2s(sched_s, offerings, alt_ln) ==
  SelectSeq(offerings[sched_s[alt_ln]],
            LAMBDA alt2 : ~(sched_s[alt2] # NoCourse \/ alt2 = alt_ln))

TwoHopAlts(sched_s, offerings, blocking_course, to_ln) ==
  SelectSeq(offerings[blocking_course],
            LAMBDA alt_ln : alt_ln # to_ln /\ sched_s[alt_ln] # NoCourse
                            /\ TwoHopAlt2s(sched_s, offerings, alt_ln) # << >>)

\* plan_student_chain with the last alternative line winning instead of the
\* first
plan_student_chain_last(sched_s, course, from_ln, to_ln, offerings, depth) ==
  IF sched_s[to_ln] = NoCourse THEN << <<course, from_ln, to_ln>> >>
  ELSE IF depth = 0 THEN None
  ELSE LET blocking_course == sched_s[to_ln]
           one == OneHopAlts(sched_s, offerings, blocking_course, to_ln)
           two == TwoHopAlts(sched_s, offerings, blocking_course, to_ln)
       IN IF one # << >>
          THEN << <<blocking_course, to_ln, one[Len(one)]>>,
                  <<course, from_ln, to_ln>> >>
          ELSE IF depth > 1 /\ two # << >>
          THEN LET alt_ln == two[1]
                   c2 == sched_s[alt_ln]
                   alt2 == TwoHopAlt2s(sched_s, offerings, alt_ln)[1]
               IN << <<c2, alt_ln, alt2>>, <<blocking_course, to_ln, alt_ln>>,
                     <<course, from_ln, to_ln>> >>
          ELSE None

\* plan_student_chain on the schedule of one student; None when no plan
plan_student_chain(sched_s, course, from_ln, to_ln, offerings, depth) ==
  IF sched_s[to_ln] = NoCourse THEN << <<course, from_ln, to_ln>> >>
  ELSE IF depth = 0 THEN None
  ELSE LET blocking_course == sched_s[to_ln]
           one == OneHopAlts(sched_s, offerings, blocking_course, to_ln)
           two == TwoHopAlts(sched_s, offerings, blocking_course, to_ln)
       IN IF one # << >>
          THEN << <<blocking_course, to_ln, one[1]>>, <<course, from_ln, to_ln>> >>
          ELSE IF depth > 1 /\ two # << >>
          THEN LET alt_ln == two[1]
                   c2 == sched_s[alt_ln]
                   alt2 == TwoHopAlt2s(sched_s, offerings, alt_ln)[1]
               IN << <<c2, alt_ln, alt2>>, <<blocking_course, to_ln, alt_ln>>,
                     <<course, from_ln, to_ln>> >>
          ELSE None

\* ------------------------------------------------------------ executor
\* ChainValid without the check that the destination line is free
ChainValidNoOccupancy(long, sched_s, chain) ==
  \A k \in DOMAIN chain :
     /\ sched_s[chain[k][2]] = chain[k][1]
     /\ pick_destination_section(long, chain[k][1], chain[k][3]) # None

\* ChainValid with the check of the source line only
ChainValidSourceOnly(long, sched_s, chain) ==
  \A k \in DOMAIN chain : sched_s[chain[k][2]] = chain[k][1]

RECURSIVE ChainValidSequential(_, _, _)
\* ChainValid with every step checked against the schedule as the steps
\* before it leave it
ChainValidSequential(long, sched_s, chain) ==
  IF chain = << >> THEN TRUE
  ELSE /\ sched_s[Head(chain)[2]] = Head(chain)[1]
       /\ sched_s[Head(chain)[3]] = NoCourse
       /\ pick_destination_section(long, Head(chain)[1], Head(chain)[3]) # None
       /\ ChainValidSequential(long,
             [[sched_s EXCEPT ![Head(chain)[2]] = NoCourse]
                        EXCEPT ![Head(chain)[3]] = Head(chain)[1]],
             Tail(chain))

\* the validation loop of apply_chain_section_aware, against the schedule and
\* the records as they are before the first step
ChainValid(long, sched_s, chain) ==
  \A k \in DOMAIN chain :
     /\ sched_s[chain[k][2]] = chain[k][1]
     /\ sched_s[chain[k][3]] = NoCourse
     /\ pick_destination_section(long, chain[k][1], chain[k][3]) # None

\* ScheduleStep with source and destination line taken for one another
ScheduleStepSwapped(sched_s, step) ==
  [[sched_s EXCEPT ![step[3]] = NoCourse] EXCEPT ![step[2]] = step[1]]

\* the schedule update of one step: sched[student].pop(src_ln, None);
\* sched[student][dst_ln] = c
ScheduleStep(sched_s, step) ==
  [[sched_s EXCEPT ![step[2]] = NoCourse] EXCEPT ![step[3]] = step[1]]

\* ApplyStep that drops the source record and never writes the moved one
ApplyStepDropsRecord(st, student, step) ==
  LET c == step[1]
      src_ln == step[2]
      dst_ln == step[3]
  IN [long |-> SelectSeq(st.long, LAMBDA r :
                 ~(r.Code = student /\ r.Course = c /\ r.Line = src_ln)),
      sched_s |-> ScheduleStep(st.sched_s, step)]

\* ApplyStep with a mask that leaves out the student
ApplyStepAnyStudent(st, student, step) ==
  LET c == step[1]
      src_ln == step[2]
      dst_ln == step[3]
      dest_class == pick_destination_section(st.long, c, dst_ln)
      mask == {i \in DOMAIN st.long :
                 st.long[i].Course = c /\ st.long[i].Line = src_ln}
  IN [long |-> Evaluated([i \in DOMAIN st.long |->
                  IF i \in mask
                  THEN [st.long[i] EXCEPT !.Line = dst_ln,
                          !.Class = IF dest_class = None THEN NaN ELSE dest_class]
                  ELSE st.long[i]]),
      sched_s |-> ScheduleStep(st.sched_s, step)]

\* ApplyStep that takes the first class code in use on the destination
\* line, whatever its course
ApplyStepAnyCourseSection(st, student, step) ==
  LET c == step[1]
      src_ln == step[2]
      dst_ln == step[3]
      on_line == SortedClasses({st.long[i].Class : i \in
                    {j \in DOMAIN st.long : st.long[j].Line = dst_ln}})
      dest_class == IF on_line = << >> THEN None ELSE on_line[1]
      mask == {i \in DOMAIN st.long : st.long[i].Code = student
                 /\ st.long[i].Course = c /\ st.long[i].Line = src_ln}
  IN [long |-> Evaluated([i \in DOMAIN st.long |->
                  IF i \in mask
                  THEN [st.long[i] EXCEPT !.Line = dst_ln,
                          !.Class = IF dest_class = None THEN NaN ELSE dest_class]
                  ELSE st.long[i]]),
      sched_s |-> ScheduleStep(st.sched_s, step)]

\* one pass of the apply loop
ApplyStep(st, student, step) ==
  LET c == step[1]
      src_ln == step[2]
      dst_ln == step[3]
      dest_class == pick_destination_section(st.long, c, dst_ln)
      mask == {i \in DOMAIN st.long : st.long[i].Code = student
                 /\ st.long[i].Course = c /\ st.long[i].Line = src_ln}
  IN [long |-> Evaluated([i \in DOMAIN st.long |->
                  IF i \in mask
                  THEN [st.long[i] EXCEPT !.Line = dst_ln,
                          !.Class = IF dest_class = None THEN NaN ELSE dest_class]
                  ELSE st.long[i]]),
      sched_s |-> ScheduleStep(st.sched_s, step)]

RECURSIVE ApplySteps(_, _, _)
ApplySteps(st, student, chain) ==
  IF chain = << >> THEN st
  ELSE ApplySteps(ApplyStep(st, student, Head(chain)), student, Tail(chain))

RECURSIVE ApplyWhileValid(_, _, _, _, _)
ApplyWhileValid(st, long0, sched0, student, chain) ==
  IF chain = << >> THEN [ok |-> TRUE, long |-> st.long, sched_s |-> st.sched_s]
  ELSE IF ~ChainValid(long0, sched0, <<Head(chain)>>)
       THEN [ok |-> FALSE, long |-> st.long, sched_s |-> st.sched_s]
       ELSE ApplyWhileValid(ApplyStep(st, student, Head(chain)), long0, sched0,
                            student, Tail(chain))

\* apply_chain_section_aware with one loop: a step is checked (against the
\* schedule of before the call) and applied at once, and the first step that
\* fails the check ends the call
apply_chain_single_loop(long, sched_s, student, chain) ==
  ApplyWhileValid([long |-> long, sched_s |-> sched_s], long, sched_s, student, chain)

\* apply_chain_section_aware: the return value and the records and schedule
\* it leaves behind
apply_chain_section_aware(long, sched_s, student, chain) ==
  IF ~ChainValid(long, sched_s, chain)
  THEN [ok |-> FALSE, long |-> long, sched_s |-> sched_s]
  ELSE LET st == ApplySteps([long |-> long, sched_s |-> sched_s], student, chain)
       IN [ok |-> TRUE, long |-> st.long, sched_s |-> st.sched_s]

\* ------------------------------------------------------- balancing loop
VARIABLES
  long_before,            \* the roster handed to the run (the caller keeps it)
  long_df,                \* the records the run mutates in place
  sched,                  \* student -> line -> course
  offerings,              \* course -> lines, as built before the first round
  moves,                  \* the move list
  moved_sc,               \* (student, course) pairs moved already
  student_move_counts,
  improved,
  rounds,
  max_rounds,
  max_moves_per_student,
  wide,                   \* the pivot of the counts taken when a round starts
  attempts,               \* the candidates the pass iterates over, in loop order
  pc,                     \* "while" | "scan" | "done"
  idx,                    \* position of the pass in its candidate attempts
  att,                    \* the candidate attempt made last and how it ended
  plan_in,                \* a call of plan_student_chain: its arguments
  plan_out,               \* the chain it returned
  plan_sched,             \* the student's schedule while the chain is applied
  plan_pos,               \* the step of the chain applied next
  plan_pc,                \* "off" | "call" | "replay" | "done"
  tgt_row,                \* a row of the pivot handed to the target calculator
  tgt_out,                \* the targets, surplus and deficit computed for it
  tgt_pc,                 \* "off" | "call" | "done"
  enable_multi,           \* the toggle of the multi-step planner
  sec_in,                 \* a call of pick_destination_section: its arguments
  sec_out,                \* the section it returned
  sec_pc,                 \* "off" | "call" | "done"
  imb_in,                 \* the pivot handed to compute_imbalance
  imb_out,                \* the report it returned
  imb_pc,                 \* "off" | "call" | "done" | "raised"
  imp_in,                 \* the two snapshots handed to build_impact
  imp_out,                \* the impact table it returned
  imp_pc,                 \* "off" | "call" | "done"
  app_in,                 \* a call of apply_chain_section_aware: its arguments
  app_out,                \* what it returned and the records and schedule left
  app_pc                  \* "off" | "call" | "done"

planVars == <<plan_in, plan_out, plan_sched, plan_pos, plan_pc>>
targetVars == <<tgt_row, tgt_out, tgt_pc>>
sectionVars == <<sec_in, sec_out, sec_pc>>
imbalanceVars == <<imb_in, imb_out, imb_pc>>
impactVars == <<imp_in, imp_out, imp_pc>>
applyVars == <<app_in, app_out, app_pc>>
reportVars == <<sectionVars, imbalanceVars, impactVars, applyVars>>

mainVars == <<long_before, long_df, sched, offerings, moves, moved_sc,
              student_move_counts, improved, rounds, max_rounds,
              max_moves_per_student, wide, attempts, pc, idx, att, enable_multi>>

vars == <<mainVars, planVars, targetVars, reportVars>>

\* Candidates cut down to the first student of the line
CandidatesFirstOnly(long, course, from_ln) ==
  LET all == ConcatAll([i \in DOMAIN long |->
               IF long[i].Course = course /\ long[i].Line = from_ln
               THEN << long[i].Code >> ELSE << >>])
  IN IF all = << >> THEN << >> ELSE << all[1] >>

\* candidates: the students of a course on a line, in row order
Candidates(long, course, from_ln) ==
  ConcatAll([i \in DOMAIN long |->
     IF long[i].Course = course /\ long[i].Line = from_ln
     THEN << long[i].Code >> ELSE << >>])

\* CourseAttempts with the direction turned round: the candidates are the
\* students of the deficit line and they are sent to the surplus line
CourseAttemptsReversed(w, long, course) ==
  LET row == w[course]
      offered == Offered(row)
      target == Target(row)
      surplus == Surplus(row, target)
      deficit == Deficit(row, target)
  IN IF Len(offered) < 2 THEN << >>
     ELSE IF surplus = << >> \/ deficit = << >> THEN << >>
     ELSE ConcatAll([t \in DOMAIN deficit |->
            ConcatAll([f \in DOMAIN surplus |->
               LET cand == Candidates(long, course, deficit[t])
               IN [k \in DOMAIN cand |->
                     [course |-> course, to_ln |-> surplus[f],
                      from_ln |-> deficit[t], student |-> cand[k]]]])])

\* the candidate attempts of one course in one pass, in loop order:
\* deficit lines, then surplus lines, then the candidates of the surplus line
CourseAttempts(w, long, course) ==
  LET row == w[course]
      offered == Offered(row)
      target == Target(row)
      surplus == Surplus(row, target)
      deficit == Deficit(row, target)
  IN IF Len(offered) < 2 THEN << >>
     ELSE IF surplus = << >> \/ deficit = << >> THEN << >>
     ELSE ConcatAll([t \in DOMAIN deficit |->
            IF target[deficit[t]] - row[deficit[t]] <= 0 THEN << >>
            ELSE ConcatAll([f \in DOMAIN surplus |->
                   IF row[surplus[f]] - target[surplus[f]] <= 0 THEN << >>
                   ELSE LET cand == Candidates(long, course, surplus[f])
                        IN [k \in DOMAIN cand |->
                              [course |-> course, to_ln |-> deficit[t],
                               from_ln |-> surplus[f], student |-> cand[k]]]])])

\* the candidate attempts of a whole pass: course by course (the records do
\* not change within a pass before its commit)
Attempts(w, long) ==
  LET index == WideIndex(w)
  IN ConcatAll([k \in DOMAIN index |-> CourseAttempts(w, long, index[k])])

NoAttempt ==
  [student |-> 0, course |-> NoCourse, from_ln |-> 0, to_ln |-> 0,
   chain |-> None, outcome |-> "none"]

\* the row of a student: a class code or an empty cell per AL column, a
\* course on at most one line
Rows ==
  {row \in [Lines -> Classes \cup {NaN}] :
     \A l1, l2 \in Lines :
        (l1 # l2 /\ row[l1] # NaN /\ row[l2] # NaN)
           => CoursePrefix(row[l1]) # CoursePrefix(row[l2])}

\* the rows with classes of the first course only, and the row without any
OneCourseRows ==
  {row \in Rows : \A ln \in Lines : row[ln] = NaN \/ CoursePrefix(row[ln]) = 1}
EmptyRow == [ln \in Lines |-> NaN]

\* the uploaded tables: either the first MixedStudents students attend any
\* of the courses and the others none, or every student attends at most the
\* first course
Rosters ==
  {[s \in Students |-> IF s <= MixedStudents THEN df[s] ELSE EmptyRow] :
      df \in [1..MixedStudents -> Rows]}
  \cup [Students -> OneCourseRows]

PlanOff ==
  /\ plan_in = << >>
  /\ plan_out = None
  /\ plan_sched = << >>
  /\ plan_pos = 0
  /\ plan_pc = "off"

TargetOff ==
  /\ tgt_row = << >>
  /\ tgt_out = << >>
  /\ tgt_pc = "off"

SectionOff ==
  /\ sec_in = << >>
  /\ sec_out = None
  /\ sec_pc = "off"

ImbalanceOff ==
  /\ imb_in = << >>
  /\ imb_out = << >>
  /\ imb_pc = "off"

ImpactOff ==
  /\ imp_in = << >>
  /\ imp_out = << >>
  /\ imp_pc = "off"

ApplyOff ==
  /\ app_in = << >>
  /\ app_out = << >>
  /\ app_pc = "off"

ReportsOff ==
  /\ SectionOff
  /\ ImbalanceOff
  /\ ImpactOff
  /\ ApplyOff

\* the page after an upload: the toggle shows its default, the run has not
\* been started
Init ==
  /\ PlanOff
  /\ TargetOff
  /\ ReportsOff
  /\ enable_multi = TRUE
  /\ \E df \in Rosters : long_before = melt_long(df)
  /\ long_df = long_before
  /\ sched = build_student_schedule(long_df)
  /\ wide = Pivot(long_df)
  /\ attempts = << >>
  /\ offerings = build_offerings(long_df)
  /\ moves = << >>
  /\ improved = TRUE
  /\ rounds = 0
  /\ moved_sc = {}
  /\ student_move_counts = [s \in Students |-> 0]
  /\ max_rounds \in 1..MaxRoundsCap
  /\ max_moves_per_student \in 1..MaxMovesCap
  /\ pc = "ui"
  /\ idx = 0
  /\ att = NoAttempt

\* if enable_multi: the engine is called with a copy of the records
RunEngine ==
  /\ pc = "ui"
  /\ enable_multi' = TRUE
  /\ pc' = "while"
  /\ UNCHANGED <<planVars, targetVars, reportVars>>
  /\ UNCHANGED <<long_before, long_df, sched, offerings, moves, moved_sc,
                 student_move_counts, improved, rounds, max_rounds,
                 max_moves_per_student, wide, attempts, idx, att>>

\* else: moves is an empty frame and long_after a copy of the records
RunDisabled ==
  /\ pc = "ui"
  /\ enable_multi' = FALSE
  /\ moves' = << >>
  /\ long_df' = long_before
  /\ pc' = "done"
  /\ UNCHANGED <<planVars, targetVars, reportVars>>
  /\ UNCHANGED <<long_before, sched, offerings, moved_sc,
                 student_move_counts, improved, rounds, max_rounds,
                 max_moves_per_student, wide, attempts, idx, att>>

\* the while condition without the round cap
WhileCondNoCap(imp, r, cap) == imp

\* while improved and rounds < max_rounds
WhileCond(imp, r, cap) == imp /\ r < cap

\* the while condition holds: a new pass starts
StartRound ==
  /\ pc = "while"
  /\ WhileCond(improved, rounds, max_rounds)
  /\ improved' = FALSE
  /\ rounds' = rounds + 1
  /\ wide' = Pivot(long_df)
  /\ attempts' = Attempts(wide', long_df)
  /\ pc' = "scan"
  /\ idx' = 1
  /\ UNCHANGED <<planVars, targetVars, reportVars>>
  /\ UNCHANGED <<long_before, long_df, sched, offerings, moves, moved_sc,
                 student_move_counts, max_rounds, max_moves_per_student, att, enable_multi>>

\* the while condition fails: return pd.DataFrame(moves), long_df
Return ==
  /\ pc = "while"
  /\ ~WhileCond(improved, rounds, max_rounds)
  /\ pc' = "done"
  /\ UNCHANGED <<planVars, targetVars, reportVars>>
  /\ UNCHANGED <<long_before, long_df, sched, offerings, moves, moved_sc,
                 student_move_counts, improved, rounds, max_rounds,
                 max_moves_per_student, wide, attempts, idx, att, enable_multi>>

\* the for loops run out without a commit
EndPass ==
  /\ pc = "scan"
  /\ idx > Len(attempts)
  /\ pc' = "while"
  /\ UNCHANGED <<planVars, targetVars, reportVars>>
  /\ UNCHANGED <<long_before, long_df, sched, offerings, moves, moved_sc,
                 student_move_counts, improved, rounds, max_rounds,
                 max_moves_per_student, wide, attempts, idx, att, enable_multi>>

ChainCourses(chain) == {chain[k][1] : k \in DOMAIN chain}

\* AttemptResult without the two budget checks
AttemptResultNoBudget(a) ==
  LET chain == plan_student_chain(sched[a.student], a.course, a.from_ln, a.to_ln,
                                  offerings, 2)
      skip(outcome, ch) ==
        [outcome |-> outcome, chain |-> ch, long |-> long_df,
         sched_s |-> sched[a.student]]
  IN IF <<a.student, a.course>> \in moved_sc
     THEN skip("moved", None)
     ELSE IF chain = None
     THEN skip("noplan", None)
     ELSE IF \E c \in ChainCourses(chain) : <<a.student, c>> \in moved_sc
     THEN skip("chainmoved", chain)
     ELSE LET res == apply_chain_section_aware(long_df, sched[a.student],
                                               a.student, chain)
          IN [outcome |-> IF res.ok THEN "commit" ELSE "rejected",
              chain |-> chain, long |-> res.long, sched_s |-> res.sched_s]

\* AttemptResult without the two checks of moved_sc
AttemptResultNoDedup(a) ==
  LET chain == plan_student_chain(sched[a.student], a.course, a.from_ln, a.to_ln,
                                  offerings, 2)
      skip(outcome, ch) ==
        [outcome |-> outcome, chain |-> ch, long |-> long_df,
         sched_s |-> sched[a.student]]
  IN IF student_move_counts[a.student] >= max_moves_per_student
     THEN skip("budget", None)
     ELSE IF chain = None
     THEN skip("noplan", None)
     ELSE IF student_move_counts[a.student] + Len(chain) > max_moves_per_student
     THEN skip("chainbudget", chain)
     ELSE LET res == apply_chain_section_aware(long_df, sched[a.student],
                                               a.student, chain)
          IN [outcome |-> IF res.ok THEN "commit" ELSE "rejected",
              chain |-> chain, long |-> res.long, sched_s |-> res.sched_s]

\* the body of `for student in candidates` for one candidate a: how it ends,
\* the chain it planned, and the records and schedule it leaves behind
AttemptResult(a) ==
  LET chain == plan_student_chain(sched[a.student], a.course, a.from_ln, a.to_ln,
                                  offerings, 2)
      skip(outcome, ch) ==
        [outcome |-> outcome, chain |-> ch, long |-> long_df,
         sched_s |-> sched[a.student]]
  IN IF student_move_counts[a.student] >= max_moves_per_student
     THEN skip("budget", None)
     ELSE IF <<a.student, a.course>> \in moved_sc
     THEN skip("moved", None)
     ELSE IF chain = None
     THEN skip("noplan", None)
     ELSE IF \E c \in ChainCourses(chain) : <<a.student, c>> \in moved_sc
     THEN skip("chainmoved", chain)
     ELSE IF student_move_counts[a.student] + Len(chain) > max_moves_per_student
     THEN skip("chainbudget", chain)
     ELSE LET res == apply_chain_section_aware(long_df, sched[a.student],
                                               a.student, chain)
          IN [outcome |-> IF res.ok THEN "commit" ELSE "rejected",
              chain |-> chain, long |-> res.long, sched_s |-> res.sched_s]

AttemptOf(a, r) ==
  [student |-> a.student, course |-> a.course, from_ln |-> a.from_ln,
   to_ln |-> a.to_ln, chain |-> r.chain, outcome |-> r.outcome]

\* a candidate is passed over (`continue`); the records and the schedule stay
\* as the call left them
Continue(outcome) ==
  /\ idx <= Len(attempts)
  /\ LET a == attempts[idx]
         r == AttemptResult(a)
     IN /\ r.outcome = outcome
        /\ long_df' = r.long
        /\ sched' = [sched EXCEPT ![a.student] = r.sched_s]
        /\ att' = AttemptOf(a, r)
  /\ idx' = idx + 1
  /\ UNCHANGED <<planVars, targetVars, reportVars>>
  /\ UNCHANGED <<long_before, offerings, moves, moved_sc, student_move_counts,
                 improved, rounds, max_rounds, max_moves_per_student, wide,
                 attempts, pc, enable_multi>>

\* student_move_counts[student] >= max_moves_per_student
SkipBudget ==
  /\ pc = "scan"
  /\ Continue("budget")

\* (student, course) in moved_sc
SkipMoved ==
  /\ pc = "scan"
  /\ Continue("moved")

\* chain is None
SkipNoPlan ==
  /\ pc = "scan"
  /\ Continue("noplan")

\* a course of the chain is in moved_sc
SkipChainMoved ==
  /\ pc = "scan"
  /\ Continue("chainmoved")

\* the chain would exceed the budget
SkipChainBudget ==
  /\ pc = "scan"
  /\ Continue("chainbudget")

\* ok is False
Rejected ==
  /\ pc = "scan"
  /\ Continue("rejected")

\* MoveRecords with the two lines of a step taken for one another
MoveRecordsLinesSwapped(student, chain) ==
  [k \in DOMAIN chain |->
     [StudentCode |-> student, Course |-> chain[k][1],
      FromLine |-> chain[k][3], ToLine |-> chain[k][2]]]

\* the records appended to the move list for a committed chain, step by step
MoveRecords(student, chain) ==
  [k \in DOMAIN chain |->
     [StudentCode |-> student, Course |-> chain[k][1],
      FromLine |-> chain[k][2], ToLine |-> chain[k][3]]]

\* Commit without the breaks: the pass goes on with the next candidate
CommitKeepsScanning ==
  /\ pc = "scan"
  /\ idx <= Len(attempts)
  /\ LET a == attempts[idx]
         r == AttemptResult(a)
     IN /\ r.outcome = "commit"
        /\ long_df' = r.long
        /\ sched' = [sched EXCEPT ![a.student] = r.sched_s]
        /\ moves' = moves \o MoveRecords(a.student, r.chain)
        /\ moved_sc' = moved_sc \cup {<<a.student, c>> : c \in ChainCourses(r.chain)}
        /\ student_move_counts' =
              [student_move_counts EXCEPT ![a.student] = @ + Len(r.chain)]
        /\ att' = AttemptOf(a, r)
  /\ improved' = TRUE
  /\ idx' = idx + 1
  /\ UNCHANGED <<planVars, targetVars, reportVars>>
  /\ UNCHANGED <<long_before, offerings, rounds, max_rounds,
                 max_moves_per_student, wide, attempts, pc, enable_multi>>

\* ok is True: every step is logged and the pass ends
Commit ==
  /\ pc = "scan"
  /\ idx <= Len(attempts)
  /\ LET a == attempts[idx]
         r == AttemptResult(a)
     IN /\ r.outcome = "commit"
        /\ long_df' = r.long
        /\ sched' = [sched EXCEPT ![a.student] = r.sched_s]
        /\ moves' = moves \o MoveRecords(a.student, r.chain)
        /\ moved_sc' = moved_sc \cup {<<a.student, c>> : c \in ChainCourses(r.chain)}
        /\ student_move_counts' =
              [student_move_counts EXCEPT ![a.student] = @ + Len(r.chain)]
        /\ att' = AttemptOf(a, r)
  /\ improved' = TRUE
  /\ pc' = "while"
  /\ UNCHANGED <<planVars, targetVars, reportVars>>
  /\ UNCHANGED <<long_before, offerings, rounds, max_rounds,
                 max_moves_per_student, wide, attempts, idx, enable_multi>>

Next ==
  \/ RunEngine
  \/ RunDisabled
  \/ StartRound
  \/ Return
  \/ EndPass
  \/ SkipBudget
  \/ SkipMoved
  \/ SkipNoPlan
  \/ SkipChainMoved
  \/ SkipChainBudget
  \/ Rejected
  \/ Commit

Spec == Init /\ [][Next]_vars

\* ------------------------------------- the planner, called on its own
MainOff ==
  /\ long_before = << >>
  /\ long_df = << >>
  /\ sched = << >>
  /\ offerings = << >>
  /\ moves = << >>
  /\ moved_sc = {}
  /\ student_move_counts = << >>
  /\ improved = FALSE
  /\ rounds = 0
  /\ max_rounds = 0
  /\ max_moves_per_student = 0
  /\ wide = << >>
  /\ attempts = << >>
  /\ pc = "off"
  /\ idx = 0
  /\ att = NoAttempt
  /\ enable_multi = FALSE

\* the depth the balancing loop passes (and the default of the parameter)
MaxDepth == 2

\* the lines of the calls
PlanLines == 1..PlanNumLines

\* a set of lines as the offering index lists it: ascending
AscendingLines(S) ==
  SeqFromTo([ln \in PlanLines |-> IF ln \in S THEN <<ln>> ELSE << >>],
            1, PlanNumLines)

\* the calls the balancing loop can make: the student holds the course on
\* from_ln, the course is offered on to_ln, and every course of the student's
\* schedule is offered on the line the student attends it on
InitPlan ==
  /\ MainOff
  /\ TargetOff
  /\ ReportsOff
  /\ \E sched_s \in [PlanLines -> Courses \cup {NoCourse}] :
     \E from_ln \in PlanLines :
       /\ sched_s[from_ln] # NoCourse
       /\ \E to_ln \in PlanLines \ {from_ln} :
          \E offered \in [Courses -> SUBSET PlanLines] :
            /\ to_ln \in offered[sched_s[from_ln]]
            /\ \A ln \in PlanLines :
                 sched_s[ln] # NoCourse => ln \in offered[sched_s[ln]]
            /\ \E depth \in 0..MaxDepth :
                 plan_in = [sched_s |-> sched_s, course |-> sched_s[from_ln],
                            from_ln |-> from_ln, to_ln |-> to_ln, depth |-> depth,
                            offerings |->
                              [k \in Courses |-> AscendingLines(offered[k])]]
  /\ plan_out = None
  /\ plan_sched = plan_in.sched_s
  /\ plan_pos = 0
  /\ plan_pc = "call"

\* chain = plan_student_chain(...), no chain found
PlanNone ==
  /\ plan_pc = "call"
  /\ LET chain == plan_student_chain(plan_in.sched_s, plan_in.course,
                     plan_in.from_ln, plan_in.to_ln, plan_in.offerings,
                     plan_in.depth)
     IN /\ chain = None
        /\ plan_out' = chain
  /\ plan_pc' = "done"
  /\ UNCHANGED <<plan_in, plan_sched, plan_pos, mainVars, targetVars, reportVars>>

\* chain = plan_student_chain(...), a chain found
PlanChain ==
  /\ plan_pc = "call"
  /\ LET chain == plan_student_chain(plan_in.sched_s, plan_in.course,
                     plan_in.from_ln, plan_in.to_ln, plan_in.offerings,
                     plan_in.depth)
     IN /\ chain # None
        /\ plan_out' = chain
  /\ plan_pc' = "replay"
  /\ plan_pos' = 1
  /\ UNCHANGED <<plan_in, plan_sched, mainVars, targetVars, reportVars>>

\* the steps of the chain are applied to the schedule in order
PlanReplay ==
  /\ plan_pc = "replay"
  /\ plan_sched' = ScheduleStep(plan_sched, plan_out[plan_pos])
  /\ plan_pos' = plan_pos + 1
  /\ plan_pc' = IF plan_pos = Len(plan_out) THEN "done" ELSE "replay"
  /\ UNCHANGED <<plan_in, plan_out, mainVars, targetVars, reportVars>>

NextPlan ==
  \/ PlanNone
  \/ PlanChain
  \/ PlanReplay

SpecPlan == InitPlan /\ [][NextPlan]_vars

\* ------------------------- the target calculator, called on its own
\* the rows of the pivot: a headcount per line, 0 where the course has no
\* student on the line
InitTarget ==
  /\ MainOff
  /\ PlanOff
  /\ ReportsOff
  /\ tgt_row \in [Lines -> 0..MaxCount]
  /\ tgt_out = << >>
  /\ tgt_pc = "call"

\* if len(offered) < 2: continue
TargetSkip ==
  /\ tgt_pc = "call"
  /\ Len(Offered(tgt_row)) < 2
  /\ tgt_out' = [balanced |-> TRUE]
  /\ tgt_pc' = "done"
  /\ UNCHANGED <<tgt_row, mainVars, planVars, reportVars>>

\* the targets of a course with two or more offering lines
TargetCompute ==
  /\ tgt_pc = "call"
  /\ Len(Offered(tgt_row)) >= 2
  /\ LET target == Target(tgt_row)
         surplus == Surplus(tgt_row, target)
         deficit == Deficit(tgt_row, target)
     IN tgt_out' = [balanced |-> surplus = << >> \/ deficit = << >>,
                    target |-> target, surplus |-> surplus, deficit |-> deficit]
  /\ tgt_pc' = "done"
  /\ UNCHANGED <<tgt_row, mainVars, planVars, reportVars>>

NextTarget ==
  \/ TargetSkip
  \/ TargetCompute

SpecTarget == InitTarget /\ [][NextTarget]_vars

\* ------------------------- the section picker, called on its own
PickLines == 1..2

\* n records of one class on one line
RowsOf(class, line, n) ==
  [k \in 1..n |-> [Code |-> 0, Line |-> line, Class |-> class,
                   Course |-> CoursePrefix(class)]]

\* every record gets a student of its own
Renumber(rows) == [i \in DOMAIN rows |-> [rows[i] EXCEPT !.Code = i]]

\* the records of a roster in which the course has on_line[k] students in
\* section k on the line, one student in section elsewhere on the other line
\* and another course one student in its section others on the line (0: no
\* such student); the sections come in descending order
SectionRoster(course, line, on_line, elsewhere, others) ==
  LET other_course == CHOOSE c \in Courses : c # course
      other_line == CHOOSE ln \in PickLines : ln # line
      block(k) == LET sec == PickMaxSec + 1 - k
                  IN RowsOf(<<other_course, sec>>, line, IF others = sec THEN 1 ELSE 0)
                     \o RowsOf(<<course, sec>>, line, on_line[sec])
                     \o RowsOf(<<course, sec>>, other_line,
                               IF elsewhere = sec THEN 1 ELSE 0)
  IN Renumber(ConcatAll([k \in 1..PickMaxSec |-> block(k)]))

InitSection ==
  /\ MainOff
  /\ PlanOff
  /\ TargetOff
  /\ ImbalanceOff
  /\ ImpactOff
  /\ ApplyOff
  /\ \E course \in Courses : \E line \in PickLines :
     \E on_line \in [1..PickMaxSec -> 0..PickMaxCount] :
     \E elsewhere \in 0..PickMaxSec :
     \E others \in 0..PickMaxSec :
        sec_in = [long |-> SectionRoster(course, line, on_line, elsewhere, others),
                  course |-> course, line |-> line]
  /\ sec_out = None
  /\ sec_pc = "call"

\* if not sections: return None
PickNone ==
  /\ sec_pc = "call"
  /\ get_course_sections_on_line(sec_in.long, sec_in.course, sec_in.line) = << >>
  /\ sec_out' = pick_destination_section(sec_in.long, sec_in.course, sec_in.line)
  /\ sec_pc' = "done"
  /\ UNCHANGED <<sec_in, mainVars, planVars, targetVars, imbalanceVars, impactVars, applyVars>>

\* return counts.sort_values(kind="mergesort").index[0]
PickLeastFilled ==
  /\ sec_pc = "call"
  /\ get_course_sections_on_line(sec_in.long, sec_in.course, sec_in.line) # << >>
  /\ sec_out' = pick_destination_section(sec_in.long, sec_in.course, sec_in.line)
  /\ sec_pc' = "done"
  /\ UNCHANGED <<sec_in, mainVars, planVars, targetVars, imbalanceVars, impactVars, applyVars>>

NextSection ==
  \/ PickNone
  \/ PickLeastFilled

SpecSection == InitSection /\ [][NextSection]_vars

\* ------------------------- the imbalance report, called on its own
\* largest and smallest member of a non-empty set of numbers
SetMax(S) == CHOOSE a \in S : \A b \in S : b <= a
SetMin(S) == CHOOSE a \in S : \A b \in S : a <= b

\* the rows compute_imbalance collects, in the order of the pivot's index
ImbalanceRows(w) ==
  ConcatAll([c \in DOMAIN w |->
     LET nz == {ln \in DOMAIN w[c] : w[c][ln] > 0}
         appears_in == Cardinality(nz)
     IN IF appears_in < 2 THEN << >>
        ELSE << [Course |-> c,
                 Range |-> SetMax({w[c][ln] : ln \in nz})
                           - SetMin({w[c][ln] : ln \in nz})] >>])

RECURSIVE SortByRangeCourse(_)
\* sort_values(["Range", "Course"], ascending=[False, True]) of a set of rows
SortByRangeCourse(S) ==
  IF S = {} THEN << >>
  ELSE LET first == CHOOSE r \in S : \A o \in S :
                      \/ r.Range > o.Range
                      \/ (r.Range = o.Range /\ r.Course <= o.Course)
       IN <<first>> \o SortByRangeCourse(S \ {first})

\* compute_imbalance: the sorted report; a frame made of no rows has no
\* columns, and sorting it by "Range" raises KeyError
compute_imbalance(w) ==
  LET rows == ImbalanceRows(w)
  IN IF rows = << >> THEN [raised |-> "KeyError", report |-> << >>]
     ELSE [raised |-> "", report |-> SortByRangeCourse({rows[k] : k \in DOMAIN rows})]

\* the pivots of the rosters: a headcount per course and line
InitImbalance ==
  /\ MainOff
  /\ PlanOff
  /\ TargetOff
  /\ SectionOff
  /\ ImpactOff
  /\ ApplyOff
  /\ imb_in \in [1..ImbNumCourses -> [Lines -> 0..ImbMaxCount]]
  /\ imb_out = << >>
  /\ imb_pc = "call"

\* the report is returned
ImbalanceReturns ==
  /\ imb_pc = "call"
  /\ LET res == compute_imbalance(imb_in)
     IN /\ res.raised = ""
        /\ imb_out' = res.report
  /\ imb_pc' = "done"
  /\ UNCHANGED <<imb_in, mainVars, planVars, targetVars, sectionVars, impactVars, applyVars>>

\* the call ends in an exception
ImbalanceRaises ==
  /\ imb_pc = "call"
  /\ compute_imbalance(imb_in).raised # ""
  /\ imb_out' = << >>
  /\ imb_pc' = "raised"
  /\ UNCHANGED <<imb_in, mainVars, planVars, targetVars, sectionVars, impactVars, applyVars>>

NextImbalance ==
  \/ ImbalanceReturns
  \/ ImbalanceRaises

SpecImbalance == InitImbalance /\ [][NextImbalance]_vars

\* ------------------------- the impact table, called on its own
\* groupby(["Course", "Line"]).size(): the groups of a frame and their sizes
GroupKeys(long) == {<<long[i].Course, long[i].Line>> : i \in DOMAIN long}
GroupSize(long, key) ==
  Cardinality({i \in DOMAIN long : long[i].Course = key[1] /\ long[i].Line = key[2]})

RECURSIVE SortByCourseLine(_)
\* sort_values(["Course", "Line"])
SortByCourseLine(S) ==
  IF S = {} THEN << >>
  ELSE LET first == CHOOSE r \in S : \A o \in S :
                      \/ r.Course < o.Course
                      \/ (r.Course = o.Course /\ r.Line <= o.Line)
       IN <<first>> \o SortByCourseLine(S \ {first})

\* a row of the merged frame, a missing side filled with 0
ImpactRow(long_b, long_a, key) ==
  LET b == IF key \in GroupKeys(long_b) THEN GroupSize(long_b, key) ELSE 0
      a == IF key \in GroupKeys(long_a) THEN GroupSize(long_a, key) ELSE 0
  IN [Course |-> key[1], Line |-> key[2], Before |-> b, After |-> a,
      Change |-> a - b]

\* build_impact with an inner join instead of the outer one
build_impact_inner(long_b, long_a) ==
  SortByCourseLine({ImpactRow(long_b, long_a, key) :
                      key \in GroupKeys(long_b) \cap GroupKeys(long_a)})

\* build_impact: the outer join of the two count frames on (Course, Line)
build_impact(long_b, long_a) ==
  SortByCourseLine({ImpactRow(long_b, long_a, key) :
                      key \in GroupKeys(long_b) \cup GroupKeys(long_a)})

\* the lines of the snapshots
ImpLines == 1..ImpNumLines

\* the records of a roster with cnt[c][ln] students of course c on line ln
LongOfCounts(cnt) ==
  Renumber(ConcatAll([ln \in ImpLines |->
     ConcatAll([c \in Courses |-> RowsOf(<<c, 1>>, ln, cnt[c][ln])])]))

\* two snapshots of the records
InitImpact ==
  /\ MainOff
  /\ PlanOff
  /\ TargetOff
  /\ SectionOff
  /\ ImbalanceOff
  /\ ApplyOff
  /\ \E b \in [Courses -> [ImpLines -> 0..ImpMaxCount]] :
     \E a \in [Courses -> [ImpLines -> 0..ImpMaxCount]] :
        imp_in = [before |-> LongOfCounts(b), after |-> LongOfCounts(a)]
  /\ imp_out = << >>
  /\ imp_pc = "call"

\* impact = build_impact(long, long_after)
BuildImpact ==
  /\ imp_pc = "call"
  /\ imp_out' = build_impact(imp_in.before, imp_in.after)
  /\ imp_pc' = "done"
  /\ UNCHANGED <<imp_in, mainVars, planVars, targetVars, sectionVars, imbalanceVars, applyVars>>

NextImpact == BuildImpact

SpecImpact == InitImpact /\ [][NextImpact]_vars

\* ------------------------- the move executor, called on its own
\* the steps a chain can be made of and the chains of up to MaxChain steps
Steps == {st \in Courses \X Lines \X Lines : st[2] # st[3]}
Chains == UNION {[1..n -> Steps] : n \in 1..MaxChain}

\* the records of a roster in which student 1 has the schedule sched_s and
\* every (course, line) of taught has one more student, each a different one
ExecRoster(sched_s, taught) ==
  LET own == ConcatAll([ln \in Lines |->
                IF sched_s[ln] = NoCourse THEN << >>
                ELSE << [Code |-> 1, Line |-> ln, Class |-> <<sched_s[ln], 1>>,
                         Course |-> sched_s[ln]] >>])
      others == Renumber(ConcatAll([ln \in Lines |->
                  ConcatAll([c \in Courses |->
                     IF <<c, ln>> \in taught THEN RowsOf(<<c, 1>>, ln, 1)
                     ELSE << >>])]))
  IN own \o [i \in DOMAIN others |-> [others[i] EXCEPT !.Code = @ + 1]]

\* a roster, one of its students and a chain
InitApply ==
  /\ MainOff
  /\ PlanOff
  /\ TargetOff
  /\ SectionOff
  /\ ImbalanceOff
  /\ ImpactOff
  /\ \E sched_s \in [Lines -> Courses \cup {NoCourse}] :
     \E taught \in SUBSET (Courses \X Lines) :
     \E chain \in Chains :
       app_in = [long |-> ExecRoster(sched_s, taught), student |-> 1,
                 chain |-> chain, sched_s |-> sched_s]
  /\ app_out = << >>
  /\ app_pc = "call"

\* return False
ApplyRejects ==
  /\ app_pc = "call"
  /\ LET res == apply_chain_section_aware(app_in.long, app_in.sched_s,
                                          app_in.student, app_in.chain)
     IN /\ ~res.ok
        /\ app_out' = res
  /\ app_pc' = "done"
  /\ UNCHANGED <<app_in, mainVars, planVars, targetVars, sectionVars,
                 imbalanceVars, impactVars>>

\* return True
ApplyAccepts ==
  /\ app_pc = "call"
  /\ LET res == apply_chain_section_aware(app_in.long, app_in.sched_s,
                                          app_in.student, app_in.chain)
     IN /\ res.ok
        /\ app_out' = res
  /\ app_pc' = "done"
  /\ UNCHANGED <<app_in, mainVars, planVars, targetVars, sectionVars,
                 imbalanceVars, impactVars>>

NextApply ==
  \/ ApplyRejects
  \/ ApplyAccepts

SpecApply == InitApply /\ [][NextApply]_vars

\* ================================================================ claims
LineSet(seq) == {seq[k] : k \in DOMAIN seq}

\* headcount of a course over all lines
CourseTotal(long, c) == Cardinality({i \in DOMAIN long : long[i].Course = c})

\* the move records logged for a student
MovesOf(s) == {k \in DOMAIN moves : moves[k].StudentCode = s}

\* max - min of the nonzero per-line headcounts of a course (0 without any)
Spread(long, c) ==
  LET nz == {counts_from_long(long, ln, c) : ln \in Lines} \ {0}
  IN IF nz = {} THEN 0
     ELSE (CHOOSE a \in nz : \A b \in nz : b <= a)
          - (CHOOSE a \in nz : \A b \in nz : a <= b)

\* C1: in every state of a run (so after every committed move and at its
\* end) the records are those of the input roster with only Line and Class
\* changed: as many records, each with its student and course, hence every
\* course has the total headcount it had in the input roster.
C1_CourseTotalsKept ==
  /\ Len(long_df) = Len(long_before)
  /\ \A i \in DOMAIN long_df :
       /\ long_df[i].Code = long_before[i].Code
       /\ long_df[i].Course = long_before[i].Course
  /\ \A c \in Courses : CourseTotal(long_df, c) = CourseTotal(long_before, c)

\* C1 witness: a run that committed two moves has ended
C1_Witness == pc = "done" /\ Len(moves) >= 2

\* C2: in every state of a run no student has two records on one line, and
\* the student's schedule has an entry for a line exactly when the student
\* has a record on it.
C2_OneRecordPerLine ==
  \A s \in Students : \A ln \in Lines :
    LET rows == {i \in DOMAIN long_df : long_df[i].Code = s /\ long_df[i].Line = ln}
    IN /\ Cardinality(rows) <= 1
       /\ (sched[s][ln] # NoCourse) <=> (rows # {})

\* C2 witness: a chain was committed for a student who attends two courses
C2_Witness ==
  /\ att.outcome = "commit"
  /\ Cardinality({i \in DOMAIN long_df : long_df[i].Code = att.student}) >= 2

\* a section of the course exists on the line
SectionExists(long, course, line) ==
  \E i \in DOMAIN long : long[i].Course = course /\ long[i].Line = line

\* C3: a one-hop chain [(b, to, alt), (c, from, to)] that reaches the
\* executor (student within budget, neither course moved before, a section
\* for (b, alt) and for (c, to)) is accepted and applied: the student ends
\* with b on alt and c on to and both steps close the move list.
C3_OneHopApplied ==
  (/\ att.outcome \in {"rejected", "commit"}
   /\ Len(att.chain) = 2
   /\ SectionExists(long_df, att.chain[1][1], att.chain[1][3])
   /\ SectionExists(long_df, att.chain[2][1], att.chain[2][3]))
  => (/\ att.outcome = "commit"
      /\ sched[att.student][att.chain[1][3]] = att.chain[1][1]
      /\ sched[att.student][att.to_ln] = att.course
      /\ Len(moves) >= 2
      /\ SubSeq(moves, Len(moves) - 1, Len(moves))
           = MoveRecords(att.student, att.chain))

\* C4: a run on a roster whose every course has a spread of at most 1
\* commits no move.
C4_BalancedNoMoves ==
  (\A c \in Courses : Spread(long_before, c) <= 1) => moves = << >>

\* C5: the steps of a returned chain, applied in order to the schedule of the
\* student, each find the student holding the step's course on its source
\* line and nothing on its destination line, and the last one leaves the
\* course on to_ln.
C5_ChainSequentiallyValid ==
  /\ plan_pc = "replay" =>
       /\ plan_sched[plan_out[plan_pos][2]] = plan_out[plan_pos][1]
       /\ plan_sched[plan_out[plan_pos][3]] = NoCourse
  /\ (plan_pc = "done" /\ plan_out # None) =>
       plan_sched[plan_in.to_ln] = plan_in.course

\* C6: in every state of a run every student has at most
\* max_moves_per_student move records, student_move_counts counts them, and
\* a commit leaves the student within the budget.
C6_WithinBudget ==
  \A s \in Students :
    /\ Cardinality(MovesOf(s)) <= max_moves_per_student
    /\ student_move_counts[s] = Cardinality(MovesOf(s))

\* C6 witness: a student with the budget used up is a candidate again and
\* is passed over
C6_Witness ==
  /\ att.outcome = "budget"
  /\ Cardinality(MovesOf(att.student)) = max_moves_per_student

\* C7: no (student, course) pair occurs in two move records.
C7_NoPairTwice ==
  \A j, k \in DOMAIN moves :
    (moves[j].StudentCode = moves[k].StudentCode
       /\ moves[j].Course = moves[k].Course) => j = k

\* C7 witness: a student whose course was moved is a candidate for the same
\* course again and is passed over
C7_Witness ==
  /\ att.outcome = "moved"
  /\ \E k \in DOMAIN moves :
       moves[k].StudentCode = att.student /\ moves[k].Course = att.course

\* an upper bound of the candidates of one pass
PassBound == NumCourses * NumLines * NumLines * NumStudents + 2

\* a number that every step of a run decreases: the passes left, then the
\* candidates left in the pass
Measure ==
  IF pc = "done" THEN 0
  ELSE IF pc = "ui" THEN (max_rounds + 1) * PassBound
  ELSE (max_rounds - rounds) * PassBound
       + (IF pc = "while" THEN 1 ELSE Len(attempts) + 3 - idx)

\* C8: the run terminates (every step decreases a natural number), it never
\* makes more than max_rounds passes, and a pass that commits nothing is the
\* last one.
C8_Terminates ==
  /\ [](rounds <= max_rounds /\ Measure >= 0)
  /\ [][Measure' < Measure]_vars
  /\ [][(pc = "while" /\ ~improved) => pc' = "done"]_vars

\* C8 witness: the round cap ends a run whose last pass committed a move
C8_Witness == pc = "done" /\ improved /\ rounds = max_rounds /\ rounds >= 2

\* position of a line in the stable ascending order of the counts
Rank(row, ln) ==
  Cardinality({l \in LineSet(Offered(row)) :
     row[l] < row[ln] \/ (row[l] = row[ln] /\ l < ln)})

\* C9: for a course with two or more offering lines, every line gets
\* total div n, plus one for the first total mod n lines in ascending order
\* of count (ties in line order); the targets sum to the total; there is a
\* surplus line iff there is a deficit line; {10, 4} gives 7 and 7, and
\* {10, 9, 8} gives 9 everywhere.
C9_Targets ==
  (tgt_pc = "done" /\ Len(Offered(tgt_row)) >= 2) =>
    LET offered == Offered(tgt_row)
        total == SumOver(offered, tgt_row)
        n == Len(offered)
    IN /\ DOMAIN tgt_out.target = LineSet(offered)
       /\ \A ln \in LineSet(offered) :
            tgt_out.target[ln] =
              (total \div n) + (IF Rank(tgt_row, ln) < total % n THEN 1 ELSE 0)
       /\ SumOver(offered, tgt_out.target) = total
       /\ (tgt_out.surplus # << >>) <=> (tgt_out.deficit # << >>)
       /\ (tgt_row[1] = 10 /\ tgt_row[2] = 4 /\ n = 2) =>
            (tgt_out.target[1] = 7 /\ tgt_out.target[2] = 7)
       /\ (tgt_row[1] = 10 /\ tgt_row[2] = 9 /\ tgt_row[3] = 8 /\ n = 3) =>
            \A ln \in LineSet(offered) : tgt_out.target[ln] = 9

\* C9 witness: targets computed for counts with a remainder and a tie
C9_Witness ==
  /\ tgt_pc = "done"
  /\ Len(Offered(tgt_row)) = 3
  /\ SumOver(Offered(tgt_row), tgt_row) % 3 = 1
  /\ tgt_row[1] = tgt_row[2] /\ tgt_row[3] > tgt_row[1]
  /\ tgt_out.surplus # << >>

\* the lines the blocking course could be moved to in one hop
FreeAlts ==
  {ln \in LineSet(plan_in.offerings[plan_in.sched_s[plan_in.to_ln]]) :
     ln # plan_in.to_ln /\ plan_in.sched_s[ln] = NoCourse}

\* C10: with the destination free the chain is the direct move; with the
\* destination held by a blocking course b that is offered on another line
\* the student does not occupy (and a depth of at least 1) it is
\* [(b, to, alt), (c, from, to)], alt the lowest such line; a chain of three
\* steps is returned only when there is no such line.
C10_FirstFit ==
  plan_pc \in {"replay", "done"} =>
    /\ plan_in.sched_s[plan_in.to_ln] = NoCourse =>
         plan_out = << <<plan_in.course, plan_in.from_ln, plan_in.to_ln>> >>
    /\ (plan_in.sched_s[plan_in.to_ln] # NoCourse /\ plan_in.depth >= 1
          /\ FreeAlts # {}) =>
         plan_out = << <<plan_in.sched_s[plan_in.to_ln], plan_in.to_ln,
                         CHOOSE a \in FreeAlts : \A b \in FreeAlts : a <= b>>,
                       <<plan_in.course, plan_in.from_ln, plan_in.to_ln>> >>
    /\ Len(plan_out) = 3 =>
         (plan_in.sched_s[plan_in.to_ln] # NoCourse /\ FreeAlts = {})

\* C10 witness: a one-hop chain chosen among two alternative lines
C10_Witness ==
  /\ plan_pc = "done"
  /\ Len(plan_out) = 2
  /\ plan_in.sched_s[plan_in.to_ln] # NoCourse
  /\ Cardinality(FreeAlts) >= 2

\* the records of the course of the call on the line of the call
PickRows == {i \in DOMAIN sec_in.long :
               sec_in.long[i].Course = sec_in.course
               /\ sec_in.long[i].Line = sec_in.line}

\* the sections present there and the headcount of one of them
PickPresent == {sec_in.long[i].Class : i \in PickRows}
PickHeadcount(cl) == Cardinality({i \in PickRows : sec_in.long[i].Class = cl})

\* C11: pick_destination_section returns None iff the course has no record
\* on the line; otherwise a section present there whose headcount is the
\* minimum and which is the lexically smallest of those with the minimum;
\* with M-a at 5 and M-b at 3 it returns M-b.
C11_LeastFilledSection ==
  sec_pc = "done" =>
    /\ (sec_out = None) <=> (PickRows = {})
    /\ sec_out # None =>
         /\ sec_out \in PickPresent
         /\ \A cl \in PickPresent :
              /\ PickHeadcount(sec_out) <= PickHeadcount(cl)
              /\ PickHeadcount(cl) = PickHeadcount(sec_out)
                   => (cl = sec_out \/ ClassLess(sec_out, cl))
    /\ (/\ PickPresent = {<<sec_in.course, 1>>, <<sec_in.course, 2>>}
        /\ PickHeadcount(<<sec_in.course, 1>>) = 5
        /\ PickHeadcount(<<sec_in.course, 2>>) = 3)
         => sec_out = <<sec_in.course, 2>>

\* C11 witness: the first section is the fullest and the other two tie for
\* the minimum
C11_Witness ==
  /\ sec_pc = "done"
  /\ Cardinality(PickPresent) = 3
  /\ PickHeadcount(<<sec_in.course, 2>>) = PickHeadcount(<<sec_in.course, 3>>)
  /\ PickHeadcount(<<sec_in.course, 1>>) > PickHeadcount(<<sec_in.course, 2>>)
  /\ sec_out = <<sec_in.course, 2>>

\* C12: a call of apply_chain_section_aware that rejects its chain leaves
\* the records, the schedule, the move list, the dedup set and the move
\* counts as they were before the call.
C12_RejectionChangesNothing ==
  [][(pc = "scan" /\ idx' = idx + 1 /\ att'.outcome = "rejected") =>
       (/\ long_df' = long_df
        /\ sched' = sched
        /\ moves' = moves
        /\ moved_sc' = moved_sc
        /\ student_move_counts' = student_move_counts)]_vars

\* the executor on its own: a call that returns False (for a source course
\* that does not match, an occupied destination or a missing section) leaves
\* the records and the schedule as they were
RejectedCallChangesNothing ==
  (app_pc = "done" /\ ~app_out.ok) =>
     (app_out.long = app_in.long /\ app_out.sched_s = app_in.sched_s)

\* C12 witness: a chain whose first step passes the checks was rejected on
\* its second step
C12_Witness ==
  /\ att.outcome = "rejected"
  /\ Len(att.chain) = 2
  /\ ChainValid(long_df, sched[att.student], <<att.chain[1]>>)
  /\ ~ChainValid(long_df, sched[att.student], <<att.chain[2]>>)

\* the balancing loop as a function of its inputs, for a planner depth: the
\* state of a run is a record of its records, schedules, offering index,
\* dedup set, move counts and move list
TryCandidate(st, a, cap, depth) ==
  LET chain == plan_student_chain(st.sched[a.student], a.course, a.from_ln,
                                  a.to_ln, st.offerings, depth)
  IN IF \/ st.counts[a.student] >= cap
        \/ <<a.student, a.course>> \in st.moved
        \/ chain = None
        \/ \E c \in ChainCourses(chain) : <<a.student, c>> \in st.moved
        \/ st.counts[a.student] + Len(chain) > cap
     THEN [ok |-> FALSE, st |-> st]
     ELSE LET res == apply_chain_section_aware(st.long, st.sched[a.student],
                                               a.student, chain)
              left == [st EXCEPT !.long = res.long,
                                 !.sched[a.student] = res.sched_s]
          IN IF ~res.ok THEN [ok |-> FALSE, st |-> left]
             ELSE [ok |-> TRUE,
                   st |-> [left EXCEPT
                     !.moved = @ \cup {<<a.student, c>> : c \in ChainCourses(chain)},
                     !.counts[a.student] = @ + Len(chain),
                     !.moves = @ \o MoveRecords(a.student, chain)]]

RECURSIVE ScanFrom(_, _, _, _, _)
\* the candidates of a pass from position k on, up to the first commit
ScanFrom(st, cands, k, cap, depth) ==
  IF k > Len(cands) THEN [ok |-> FALSE, st |-> st]
  ELSE LET r == TryCandidate(st, cands[k], cap, depth)
       IN IF r.ok THEN r ELSE ScanFrom(r.st, cands, k + 1, cap, depth)

RECURSIVE RunFrom(_, _, _, _, _, _)
RunFrom(st, imp, r, max_r, cap, depth) ==
  IF ~WhileCond(imp, r, max_r) THEN st
  ELSE LET pass == ScanFrom(st, Attempts(Pivot(st.long), st.long), 1, cap, depth)
       IN RunFrom(pass.st, pass.ok, r + 1, max_r, cap, depth)

\* the move list of a run
EngineMoves(long, max_r, cap, depth) ==
  RunFrom([long |-> long, sched |-> build_student_schedule(long),
           offerings |-> build_offerings(long), moved |-> {},
           counts |-> [s \in Students |-> 0], moves |-> << >>],
          TRUE, 0, max_r, cap, depth).moves

\* the run of the engine as the page makes it ends with the move list of
\* this function at depth 2
EngineMovesAgree ==
  (pc = "done" /\ enable_multi) =>
     moves = EngineMoves(long_before, max_rounds, max_moves_per_student, MaxDepth)

\* C13: with the toggle off the move list is that of the balancing loop with
\* the planner at depth 0 (direct moves only).
C13_ToggleOffDirectMoves ==
  (pc = "done" /\ ~enable_multi) =>
     moves = EngineMoves(long_before, max_rounds, max_moves_per_student, 0)

\* C14: a pass commits at most one chain: while a pass scans its candidates
\* nothing has been committed in it (improved is false and the counts and
\* candidates of the pass are those of the records), a commit ends the pass,
\* and the next pass takes its counts and candidates from the updated
\* records and starts at the first candidate of the first course.
C14_OneCommitPerPass ==
  /\ [](pc = "scan" =>
         (~improved /\ wide = Pivot(long_df)
            /\ attempts = Attempts(Pivot(long_df), long_df)))
  /\ [][moves' # moves => (pc = "scan" /\ pc' = "while" /\ improved')]_vars
  /\ [][(pc = "while" /\ pc' = "scan") =>
          (/\ idx' = 1
           /\ rounds' = rounds + 1
           /\ wide' = Pivot(long_df)
           /\ attempts' = Attempts(Pivot(long_df), long_df))]_vars

\* C14 witness: the pass after a commit starts at its first candidate with
\* counts that differ from those of the input roster
C14_Witness ==
  /\ pc = "scan"
  /\ idx = 1
  /\ rounds = 2
  /\ Len(moves) = 1
  /\ wide # Pivot(long_before)
  /\ attempts # << >>

\* the courses of the pivot that have a headcount on two or more lines
ImbCourses ==
  {c \in DOMAIN imb_in : Cardinality({ln \in Lines : imb_in[c][ln] > 0}) >= 2}

\* max - min of the nonzero headcounts of a course of the pivot
ImbRange(c) ==
  LET nz == {imb_in[c][ln] : ln \in Lines} \ {0}
  IN SetMax(nz) - SetMin(nz)

\* C15: for every pivot compute_imbalance returns a report (it does not
\* fail) with one row for each course that has a nonzero headcount on two or
\* more lines and no other row, Range being max - min of the nonzero
\* headcounts, the rows ordered by Range descending, then Course ascending.
C15_ImbalanceReport ==
  imb_pc \notin {"off", "call"} =>
    /\ imb_pc = "done"
    /\ {imb_out[k].Course : k \in DOMAIN imb_out} = ImbCourses
    /\ Len(imb_out) = Cardinality(ImbCourses)
    /\ \A k \in DOMAIN imb_out : imb_out[k].Range = ImbRange(imb_out[k].Course)
    /\ \A j, k \in DOMAIN imb_out :
         j < k => \/ imb_out[j].Range > imb_out[k].Range
                  \/ (imb_out[j].Range = imb_out[k].Range
                        /\ imb_out[j].Course < imb_out[k].Course)

\* the report is as C15 says whenever there is a course on two lines
ImbalanceReportWhenAny ==
  (imb_pc \notin {"off", "call"} /\ ImbCourses # {}) => C15_ImbalanceReport

RECURSIVE SumChange(_, _)
\* the Change values of the rows of a course, added up
SumChange(rows, c) ==
  IF rows = << >> THEN 0
  ELSE (IF Head(rows).Course = c THEN Head(rows).Change ELSE 0)
       + SumChange(Tail(rows), c)

\* C16: the impact table has exactly one row for every (course, line) that
\* has a record in the before or in the after snapshot; Before and After are
\* the headcounts there (0 where the snapshot has no record) and Change is
\* After - Before; for two snapshots with the same total of a course (those
\* of one run, by C1) the Change values of the course sum to 0.
C16_ImpactOuterJoin ==
  imp_pc = "done" =>
    LET before(c, ln) == counts_from_long(imp_in.before, ln, c)
        after(c, ln) == counts_from_long(imp_in.after, ln, c)
        keys == {key \in Courses \X ImpLines :
                   before(key[1], key[2]) > 0 \/ after(key[1], key[2]) > 0}
    IN /\ {<<imp_out[k].Course, imp_out[k].Line>> : k \in DOMAIN imp_out} = keys
       /\ Len(imp_out) = Cardinality(keys)
       /\ \A k \in DOMAIN imp_out :
            /\ imp_out[k].Before = before(imp_out[k].Course, imp_out[k].Line)
            /\ imp_out[k].After = after(imp_out[k].Course, imp_out[k].Line)
            /\ imp_out[k].Change = imp_out[k].After - imp_out[k].Before
       /\ \A c \in Courses :
            CourseTotal(imp_in.before, c) = CourseTotal(imp_in.after, c)
              => SumChange(imp_out, c) = 0

\* C16 witness: a course keeps its total, leaves one line and appears on
\* another
C16_Witness ==
  /\ imp_pc = "done"
  /\ \E c \in Courses :
       /\ CourseTotal(imp_in.before, c) = CourseTotal(imp_in.after, c)
       /\ \E j, k \in DOMAIN imp_out :
            /\ imp_out[j].Course = c /\ imp_out[k].Course = c
            /\ imp_out[j].Before > 0 /\ imp_out[j].After = 0
            /\ imp_out[k].Before = 0 /\ imp_out[k].After > 0

\* C17: in every state of a run (so whenever a pass hands the offering index
\* to the planner) the index lists, for every course, exactly the lines on
\* which the course has a nonzero headcount in the current records.
C17_OfferingsCurrent ==
  pc \in {"ui", "while", "scan", "done"} =>
    \A c \in Courses :
      LineSet(offerings[c]) = {ln \in Lines : counts_from_long(long_df, ln, c) > 0}

\* C17 witness: in a pass after a commit the planner returned a chain for a
\* blocked candidate
C17_Witness ==
  /\ pc = "scan"
  /\ rounds >= 2
  /\ idx > 1
  /\ moves # << >>
  /\ att.outcome = "rejected"
  /\ long_df # long_before

\* the records just before step k of the chain of the call is applied
BeforeStep(k) ==
  ApplySteps([long |-> app_in.long, sched_s |-> app_in.sched_s],
             app_in.student, SubSeq(app_in.chain, 1, k - 1)).long

\* C18: every move record is a step of a chain the executor accepted, and
\* for every step of an accepted chain the step's course has at least one
\* student on the step's destination line in the records as they are just
\* before the step is applied.
C18_DestinationTaught ==
  (app_pc = "done" /\ app_out.ok) =>
    \A k \in DOMAIN app_in.chain :
      counts_from_long(BeforeStep(k), app_in.chain[k][3], app_in.chain[k][1]) >= 1

\* C18 witness: a chain of two steps was accepted
C18_Witness ==
  /\ app_pc = "done"
  /\ app_out.ok
  /\ Len(app_in.chain) = 2
  /\ app_out.long # app_in.long

\* in a run, move records are appended only for a chain the executor
\* accepted, and each goes to a line the course has a student on
MovesToTaughtLines ==
  [][\A k \in (Len(moves) + 1)..Len(moves') :
       /\ att'.outcome = "commit"
       /\ counts_from_long(long_df, moves'[k].ToLine, moves'[k].Course) >= 1]_vars

\* C19: in every state of a run (so after every committed chain) a student's
\* schedule has an entry for a line exactly when the student has a record
\* on it, and the entry is the course of that record.
C19_ScheduleAgrees ==
  pc \in {"ui", "while", "scan", "done"} =>
    \A s \in Students : \A ln \in Lines :
      LET rows == {i \in DOMAIN long_df : long_df[i].Code = s /\ long_df[i].Line = ln}
      IN IF rows = {} THEN sched[s][ln] = NoCourse
         ELSE \A i \in rows : sched[s][ln] = long_df[i].Course

\* C19 witness: a chain was committed for a student who keeps another course
\* where it was
C19_Witness ==
  /\ pc = "while"
  /\ att.outcome = "commit"
  /\ sched[att.student][att.to_ln] = att.course
  /\ sched[att.student][att.from_ln] = NoCourse
  /\ \E ln \in Lines \ {att.to_ln} : sched[att.student][ln] # NoCourse

\* C20: no step of a run increases the spread (max - min of the nonzero
\* headcounts per line) of any course, and in every state of a run (so at
\* its end) the spread of every course is at most its spread in the input
\* roster.
C20_SpreadNeverGrows ==
  /\ [][\A c \in Courses : Spread(long_df', c) <= Spread(long_df, c)]_vars
  /\ [](pc \in {"ui", "while", "scan", "done"} =>
         \A c \in Courses : Spread(long_df, c) <= Spread(long_before, c))

\* C20 witness: a run that moved two students has ended with a course at a
\* smaller spread than in the input roster
C20_Witness ==
  /\ pc = "done"
  /\ Len(moves) >= 2
  /\ \E c \in Courses :
       Spread(long_before, c) >= 3 /\ Spread(long_df, c) < Spread(long_before, c)

\* the students who hold a course on a line in the records
Holders(long, c, ln) ==
  {long[i].Code : i \in {j \in DOMAIN long : long[j].Course = c /\ long[j].Line = ln}}

\* C21: a run of the engine that ends after fewer than max_rounds passes
\* ends exhausted: in its final state, for every course on two or more
\* lines, every deficit line t, every surplus line f and every student
\* holding the course on f, the body of the candidate loop passes the student
\* over (move budget used up, pair moved already, no chain, a chain with a
\* moved course or beyond the budget, or a chain the executor rejects).
C21_ExhaustedAtEnd ==
  (pc = "done" /\ enable_multi /\ rounds < max_rounds) =>
    \A c \in Courses :
      LET row == Pivot(long_df)[c]
          target == Target(row)
      IN Len(Offered(row)) >= 2 =>
           \A t \in LineSet(Deficit(row, target)) :
             \A f \in LineSet(Surplus(row, target)) :
               \A s \in Holders(long_df, c, f) :
                 AttemptResult([student |-> s, course |-> c,
                                from_ln |-> f, to_ln |-> t]).outcome
                   \in {"budget", "moved", "noplan", "chainmoved",
                        "chainbudget", "rejected"}

\* C21 witness: a run that committed a move ended before the round cap with
\* a course that still has a surplus line, a deficit line and two students
\* on the surplus line
C21_Witness ==
  /\ pc = "done"
  /\ enable_multi
  /\ rounds < max_rounds
  /\ moves # << >>
  /\ \E c \in Courses :
       LET row == Pivot(long_df)[c]
           target == Target(row)
       IN /\ Len(Offered(row)) >= 2
          /\ Deficit(row, target) # << >>
          /\ \E f \in LineSet(Surplus(row, target)) :
               Cardinality(Holders(long_df, c, f)) >= 2

\* the lines on which a course has a nonzero headcount in the records
TaughtLines(long, c) == {ln \in Lines : counts_from_long(long, ln, c) > 0}

\* C22: no step of a run empties a (course, line) pair that has students or
\* populates one that has none, and in every state of a run (so at its end)
\* every course has a nonzero headcount on exactly the lines on which it has
\* one in the input roster.
C22_TaughtLinesKept ==
  /\ [][\A c \in Courses : TaughtLines(long_df', c) = TaughtLines(long_df, c)]_vars
  /\ [](pc \in {"ui", "while", "scan", "done"} =>
         \A c \in Courses :
           /\ TaughtLines(long_df, c) = TaughtLines(long_before, c)
           /\ Offered(Pivot(long_df)[c]) = Offered(Pivot(long_before)[c]))

\* C22 witness: a run has ended after a move that took a student from a line
\* where the course had two students and a move that brought one to a line
\* where it had one
C22_Witness ==
  /\ pc = "done"
  /\ \E j, k \in DOMAIN moves :
       /\ counts_from_long(long_before, moves[j].FromLine, moves[j].Course) = 2
       /\ counts_from_long(long_df, moves[j].FromLine, moves[j].Course) = 1
       /\ counts_from_long(long_before, moves[k].ToLine, moves[k].Course) = 1
       /\ counts_from_long(long_df, moves[k].ToLine, moves[k].Course) >= 2

\* the (student, line, course) assignments of the records
Assignments(long) ==
  {<<long[i].Code, long[i].Line, long[i].Course>> : i \in DOMAIN long}

\* a move record can be replayed on a set of assignments: the student holds
\* the course on FromLine and nothing on ToLine
ReplayOk(A, m) ==
  /\ <<m.StudentCode, m.FromLine, m.Course>> \in A
  /\ ~\E a \in A : a[1] = m.StudentCode /\ a[2] = m.ToLine

\* the assignments after the move record is replayed
ReplayOne(A, m) ==
  (A \ {<<m.StudentCode, m.FromLine, m.Course>>})
    \cup {<<m.StudentCode, m.ToLine, m.Course>>}

RECURSIVE Replay(_, _)
\* the move records replayed in order: whether every one could be replayed,
\* and the assignments left
Replay(A, ms) ==
  IF ms = << >> THEN [ok |-> TRUE, assignments |-> A]
  ELSE IF ~ReplayOk(A, Head(ms)) THEN [ok |-> FALSE, assignments |-> A]
       ELSE Replay(ReplayOne(A, Head(ms)), Tail(ms))

\* C23: in every state of a run (so at its end) the move list replayed in
\* commit order on the input roster is valid at every record (the student
\* holds the course on FromLine and nothing on ToLine) and leaves exactly
\* the (student, line, course) assignments of the current records, which
\* are as many as the records.
C23_MoveListReplays ==
  pc \in {"ui", "while", "scan", "done"} =>
    LET r == Replay(Assignments(long_before), moves)
    IN /\ r.ok
       /\ r.assignments = Assignments(long_df)
       /\ Cardinality(Assignments(long_df)) = Len(long_df)

\* C23 witness: a run has ended with a move list in which a later record
\* brings a student to the line an earlier record took another student from
C23_Witness ==
  /\ pc = "done"
  /\ \E j, k \in DOMAIN moves :
       /\ j < k
       /\ moves[j].StudentCode # moves[k].StudentCode
       /\ moves[j].Course = moves[k].Course
       /\ moves[j].FromLine = moves[k].ToLine
  /\ Assignments(long_df) # Assignments(long_before)

\* how many records a student has whose class code is of the course
TakesCount(long, s, c) ==
  Cardinality({i \in DOMAIN long :
     long[i].Code = s /\ CoursePrefix(long[i].Class) = c})

\* how many records a student has
RecordCount(long, s) == Cardinality({i \in DOMAIN long : long[i].Code = s})

\* C24: in every state of a run (so after every committed move) every
\* student has as many records, and as many of each course, as in the input
\* roster, and the class code of every record is of the record's course; a
\* step of a run changes nothing of a record but its line and its class
\* code, changes a record only by a commit, and the class code it writes is
\* one of the same course.
C24_CoursesOfStudentKept ==
  /\ [](pc \in {"ui", "while", "scan", "done"} =>
         /\ \A s \in Students :
              /\ RecordCount(long_df, s) = RecordCount(long_before, s)
              /\ \A c \in Courses \cup {NoCourse} :
                   TakesCount(long_df, s, c) = TakesCount(long_before, s, c)
         /\ \A i \in DOMAIN long_df :
              CoursePrefix(long_df[i].Class) = long_df[i].Course)
  /\ [][/\ DOMAIN long_df' = DOMAIN long_df
        /\ \A i \in DOMAIN long_df :
             /\ long_df'[i].Code = long_df[i].Code
             /\ long_df'[i].Course = long_df[i].Course
             /\ long_df'[i] # long_df[i] =>
                  /\ att'.outcome = "commit"
                  /\ long_df[i].Code = att'.student
                  /\ long_df'[i].Line = att'.to_ln
                  /\ CoursePrefix(long_df'[i].Class) = long_df[i].Course]_vars

\* C24 witness: a move was committed for a student who takes two courses,
\* to a line on which another course has students as well
C24_Witness ==
  /\ att.outcome = "commit"
  /\ pc = "while"
  /\ RecordCount(long_df, att.student) >= 2
  /\ \E i \in DOMAIN long_df :
       /\ long_df[i].Line = att.to_ln
       /\ long_df[i].Course # att.course
       /\ ClassLess(long_df[i].Class, <<att.course, 1>>)

\* the section picker on its own, with several sections per course: the
\* section it returns is one of the course it was asked for
PickedSectionOfCourse ==
  (sec_pc = "done" /\ sec_out # None) => CoursePrefix(sec_out) = sec_in.course

====
